---- MODULE Spec2Model ----
(***************************************************************************)
(* Model of the VICE binary-monitor smoke test (vice-bm-smoke-test.py):    *)
(* the frame scan find_packet, the request encoder and the session of      *)
(* send_cmd, the facade operations and the two scenarios run by main.      *)
(*                                                                         *)
(* Byte strings are sequences of naturals 0..255.  Python indexes from 0,  *)
(* TLA+ from 1: stream[k] in the source is stream[k+1] here.               *)
(***************************************************************************)
EXTENDS Integers, Sequences, FiniteSets, TLC

\* ------------------------------------------------------------------------
\* Bounds of the model
\* ------------------------------------------------------------------------
\* most response frames concatenated into a stream handed to find_packet
MaxFrames == 2
\* most bytes cut off the tail of such a stream
MaxCut == 1
\* most chunks the emulator pushes on one connection
MaxChunks == 2
\* most reads of the poll loop that are followed step by step; after them the
\* remaining time to the deadline passes in one step
MaxPolls == 2

\* ------------------------------------------------------------------------
\* Byte-string helpers
\* ------------------------------------------------------------------------
Min(a, b) == IF a <= b THEN a ELSE b

\* Python s[a:b] for 0 <= a: the slice is clamped to the string, never raises
Slice(s, a, b) ==
    LET hi == Min(b, Len(s))
    IN  IF hi <= a THEN << >> ELSE [k \in 1..(hi - a) |-> s[a + k]]

\* Python s[-n:] for n > 0
LastN(s, n) == Slice(s, IF Len(s) > n THEN Len(s) - n ELSE 0, Len(s))

\* int.from_bytes(bs, "little")
RECURSIVE from_bytes_little(_)
from_bytes_little(bs) ==
    IF bs = << >> THEN 0 ELSE Head(bs) + 256 * from_bytes_little(Tail(bs))

\* struct.pack("<I", n) for 0 <= n < 2^32
pack_u32(n) ==
    << n % 256, (n \div 256) % 256, (n \div 65536) % 256, (n \div 16777216) % 256 >>

\* struct.pack("<H", n) for 0 <= n < 2^16
pack_u16(n) == << n % 256, (n \div 256) % 256 >>

\* ------------------------------------------------------------------------
\* find_packet
\* ------------------------------------------------------------------------
\* find_packet's "return None" and the default req_id=None
None == << >>
NoId == -1

\* while i + 12 <= len(stream)
ScanInRange(stream, i) == i + 12 <= Len(stream)

\* stream[i] == 0x02 and stream[i+1] == 0x02
MarkerAt(stream, i) == stream[i + 1] = 2 /\ stream[i + 2] = 2

\* body_len = int.from_bytes(stream[i+2:i+6], "little"); pkt_len = 12 + body_len
PktLenAt(stream, i) == 12 + from_bytes_little(Slice(stream, i + 2, i + 6))

\* pkt = stream[i:i+pkt_len]
PktAt(stream, i) == Slice(stream, i, i + PktLenAt(stream, i))

\* the header fields find_packet reads out of pkt
PktCmd(pkt) == pkt[7]
PktErr(pkt) == pkt[8]
PktRid(pkt) == from_bytes_little(Slice(pkt, 8, 12))
PktBody(pkt) == Slice(pkt, 12, Len(pkt))

\* variant: the same test without the correlation-id condition
PacketMatchesAnyId(pkt, cmd_id, req_id) ==
    /\ Len(pkt) >= 12
    /\ PktCmd(pkt) = cmd_id
    /\ PktErr(pkt) = 0

\* variant: the same test without the error-code condition
PacketMatchesNoErrCheck(pkt, cmd_id, req_id) ==
    /\ Len(pkt) >= 12
    /\ PktCmd(pkt) = cmd_id
    /\ (req_id = NoId \/ PktRid(pkt) = req_id)

\* if len(pkt) >= 12: ... if cmd == cmd_id and err == 0x00 and
\*                           (req_id is None or rid == req_id)
PacketMatches(pkt, cmd_id, req_id) ==
    /\ Len(pkt) >= 12
    /\ PktCmd(pkt) = cmd_id
    /\ PktErr(pkt) = 0
    /\ (req_id = NoId \/ PktRid(pkt) = req_id)

\* variant: an advance by the declared body length alone
ScanAdvanceBodyOnly(stream, i) ==
    IF MarkerAt(stream, i) THEN i + PktLenAt(stream, i) - 12 ELSE i + 1

\* variant: an advance that steps over the 12 header bytes only
ScanAdvanceHeaderOnly(stream, i) ==
    IF MarkerAt(stream, i) THEN i + 12 ELSE i + 1

\* the offset after one iteration that did not return
ScanAdvance(stream, i) ==
    IF MarkerAt(stream, i) THEN i + PktLenAt(stream, i) ELSE i + 1

\* the whole function, from offset i on
RECURSIVE find_from(_, _, _, _)
find_from(stream, i, cmd_id, req_id) ==
    IF ~ScanInRange(stream, i) THEN None
    ELSE LET pkt == PktAt(stream, i)
         IN  IF MarkerAt(stream, i) /\ PacketMatches(pkt, cmd_id, req_id)
             THEN pkt
             ELSE find_from(stream, ScanAdvance(stream, i), cmd_id, req_id)

find_packet(stream, cmd_id, req_id) == find_from(stream, 0, cmd_id, req_id)

\* ------------------------------------------------------------------------
\* Wire frames
\* ------------------------------------------------------------------------
\* variant: a request laid out like a response (12-byte header)
EncodeRequestResponseLayout(cmd, id, body) ==
    << 2, 2 >> \o pack_u32(Len(body)) \o << cmd, 0 >> \o pack_u32(id) \o body

\* header = bytes([0x02,0x02]) + pack("<I", len(body)) + pack("<I", req_id)
\*          + bytes([cmd_id]);  msg = header + body
EncodeRequest(cmd, id, body) ==
    << 2, 2 >> \o pack_u32(Len(body)) \o pack_u32(id) \o << cmd >> \o body

\* a response frame as the emulator writes it, in the layout find_packet reads:
\* 02 02 | body_len:u32 | cmd | err | rid:u32 | body
ResponseFrame(f) ==
    << 2, 2 >> \o pack_u32(Len(f.body)) \o << f.cmd, f.err >> \o pack_u32(f.rid) \o f.body

\* the tail of the stream lost: s[:len(s)-cut]
CutTail(s, cut) == Slice(s, 0, Len(s) - cut)

RECURSIVE Concat(_)
Concat(ss) == IF ss = << >> THEN << >> ELSE Head(ss) \o Concat(Tail(ss))

FramesBytes(fs) == Concat([k \in 1..Len(fs) |-> ResponseFrame(fs[k])])

\* ------------------------------------------------------------------------
\* State

\* ------------------------------------------------------------------------
VARIABLES
    \* one call of find_packet, iteration by iteration
    input,      \* what the stream was built from
    stream,     \* find_packet's arguments
    cmd_id,
    req_id,
    i,          \* the scan offset
    parsed,     \* the packets sliced out at a start-marker so far, in order
    ret,        \* the value returned
    scan        \* "off", "loop" or "returned"

scanVars == << input, stream, cmd_id, req_id, i, parsed, ret, scan >>

VARIABLES
    \* the program
    variant,    \* which of the two scripts runs: "scripts" or "test"
    pc,         \* where main (and the function it is in) stands
    exc,        \* the exception that reached the top level, "none" before
    exit_code,  \* the process's exit status, -1 while it runs
    stderr,     \* number of "[!] Error: ..." lines written
    procs,      \* the spawned processes: xvfb, vice, vice2
    prg_file,   \* the temporary .prg file exists
    TIMINGS,    \* the timing log
    clock,      \* ms since the start stamp of the loop that reads the time
    found,      \* run_autostart_hello's locals
    screen,
    seen,       \* what the poll loop has observed so far
    diag,       \* what a failed verification puts in its error message
    trail,      \* the commands and verification steps ended so far, each
                \* with whether it did what it was for
    done,       \* the facade call that has just finished, until main moves on
    \* the session of send_cmd
    sess,       \* "idle", "connect", "drain", "send", "collect", "returned"
    cur,        \* the command being sent: cmd_id and body
    socks,      \* number of sockets the program holds open
    rxbuf,      \* chunks that arrived on the socket and are not read yet
    data,       \* recv_all's accumulator
    sent,       \* messages written on this connection
    emitted,    \* chunks the emulator pushed on this connection
    owed,       \* the chunks pushed on this connection that the drain has not
                \* read, each with whether it was pushed before the request
    peer_closed,\* the emulator closed its end
    resp        \* what send_cmd returned

mainVars == << variant, pc, exc, exit_code, stderr, procs, prg_file, TIMINGS,
               clock, found, screen, seen, diag, trail, done >>
sessVars == << sess, cur, socks, rxbuf, data, sent, emitted, owed, peer_closed,
              resp >>

vars == << scanVars, mainVars, sessVars >>

\* ------------------------------------------------------------------------
\* Program data
\* ------------------------------------------------------------------------
\* command types of the binary monitor
CMD_MEM_GET == 1
CMD_MEM_SET == 2
CMD_KEYBOARD_FEED == 114
CMD_INFO == 133
CMD_RESET == 204

\* while ms_since(t_wait) - start_ms < timeout_ms, in ms
timeout_ms == 3000
\* time.sleep(0.05) between two polls, in ms
POLL_SLEEP_MS == 50
\* sock.settimeout(0.3), in ms
RECV_TIMEOUT_MS == 300
\* time.sleep(0.02) after each chunk, in ms
CHUNK_SLEEP_MS == 20
\* wait_for_port(port, timeout=10), in ms
WAIT_PORT_MS == 10000
\* time.sleep(0.25) after a refused connect, in ms
WAIT_RETRY_MS == 250
\* the addresses and lengths main reads and writes
TEST_ADDR == 2048
PROGRAM_BASE == 2049
POINTERS_ADDR == 43
SCREEN_ADDR == 1024
SCREEN_LEN == 1000
\* the byte main writes and expects back
TEST_VALUE == 66

HELLO_SCREEN_CODES == << 8, 5, 12, 12, 15 >>
HELLO_WORLD_PETSCII == << 200, 197, 204, 204, 207, 32, 215, 207, 210, 204, 196 >>

\* build_basic_hello_program_bytes (test) and the program literal (scripts)
ProgramBytes(v) ==
    IF v = "test"
    THEN << 14, 8, 10, 0, 153, 34, 72, 69, 76, 76, 79, 34, 0, 0, 0 >>
    ELSE << 11, 8, 10, 0, 153, 34, 72, 69, 76, 76, 79, 32, 87, 79, 82, 76, 68, 34,
            0, 21, 8, 20, 0, 128, 0, 0 >>

\* program.index(0x00, 4)
IndexFrom(s, b, start) ==
    CHOOSE k \in start..(Len(s) - 1) :
        s[k + 1] = b /\ \A j \in start..(k - 1) : s[j + 1] # b

\* program_end as each script computes it
ProgramEnd(v) ==
    IF v = "test"
    THEN PROGRAM_BASE + Len(ProgramBytes(v))
    ELSE LET line_break == IndexFrom(ProgramBytes(v), 0, 4)
         IN  from_bytes_little(Slice(ProgramBytes(v), line_break + 1, line_break + 3))

\* struct.pack("<HHHH", program_base, program_end, program_end, program_end)
PointerBlob(v) ==
    pack_u16(PROGRAM_BASE) \o pack_u16(ProgramEnd(v)) \o pack_u16(ProgramEnd(v))
        \o pack_u16(ProgramEnd(v))

\* struct.pack("<B", len(run_text)) + "RUN\r".encode("ascii")
KeyboardBody == << 4, 82, 85, 78, 13 >>

\* variant: a descriptor with the end address in front of the start address
RegionBodySwapped(addr, end_addr) ==
    << 0 >> \o pack_u16(end_addr) \o pack_u16(addr) \o << 0 >> \o pack_u16(0)

\* struct.pack("<BHHBH", 0, addr, end_addr, 0, 0) raises struct.error unless
\* both addresses fit 16 bits
PackOk(addr, end_addr) ==
    /\ 0 <= addr /\ addr <= 65535
    /\ 0 <= end_addr /\ end_addr <= 65535

RegionBody(addr, end_addr) ==
    << 0 >> \o pack_u16(addr) \o pack_u16(end_addr) \o << 0 >> \o pack_u16(0)

\* the pattern each script looks for on the screen, and how much of the
\* screen its failure message shows
Pattern(v) == IF v = "test" THEN HELLO_SCREEN_CODES ELSE HELLO_WORLD_PETSCII
PreviewLen(v) == IF v = "test" THEN 80 ELSE 40

\* pat in s  /  s.find(pat) != -1
HasSub(s, pat) ==
    \E k \in 0..(Len(s) - Len(pat)) : \A j \in 1..Len(pat) : s[k + j] = pat[j]

\* the message of a failed verification: its text up to the preview, and the
\* bytes of " ".join(f"{b:02X}" for b in screen[:n])
Preview(msg, scr, n) == [msg |-> msg, preview |-> Slice(scr, 0, n)]

\* a local that was never assigned
Unbound == << -1 >>

\* the facade call made at each position of main: what is sent, how the
\* reply is treated, the timing tag, and where main goes on success
Call(kind, cmd, addr, payload, n, scope, label, next) ==
    [kind |-> kind, cmd |-> cmd, addr |-> addr, payload |-> payload, n |-> n,
     scope |-> scope, label |-> label, next |-> next]

CallAt(p, v) ==
    CASE p = "info" ->
            Call("check", CMD_INFO, 0, << >>, 0, "injection", "bm_info", "write_test")
      [] p = "write_test" ->
            Call("write", CMD_MEM_SET, TEST_ADDR, << TEST_VALUE >>, 1,
                 "injection", "bm_write_$0800", "read_test")
      [] p = "read_test" ->
            Call("read", CMD_MEM_GET, TEST_ADDR, << >>, 1,
                 "injection", "bm_read_$0800", "reset")
      [] p = "reset" ->
            Call("raw", CMD_RESET, 0, << 0 >>, 0,
                 "injection", "bm_reset_soft", "write_program")
      [] p = "write_program" ->
            Call("write", CMD_MEM_SET, PROGRAM_BASE, ProgramBytes(v),
                 Len(ProgramBytes(v)), "injection", "bm_write_program", "write_pointers")
      [] p = "write_pointers" ->
            Call("write", CMD_MEM_SET, POINTERS_ADDR, PointerBlob(v), 8,
                 "injection", "bm_patch_basic_pointers", "keyboard")
      [] p = "keyboard" ->
            Call("raw", CMD_KEYBOARD_FEED, 0, KeyboardBody, 0,
                 "injection", "bm_keyboard_feed", "read_screen")
      [] p = "read_screen" ->
            Call("read", CMD_MEM_GET, SCREEN_ADDR, << >>, SCREEN_LEN,
                 "injection", "bm_read_screen",
                 IF v = "test" THEN "cleanup_vice" ELSE "cleanup_all")
      [] p = "info2" ->
            Call("check", CMD_INFO, 0, << >>, 0, "autostart", "bm_info", "poll_init")
      [] p = "poll_read" ->
            Call("read", CMD_MEM_GET, SCREEN_ADDR, << >>, SCREEN_LEN,
                 "autostart", "bm_read_screen", "poll_test")
      [] p = "region" ->
            \* read_mem(port, addr, length) / write_mem(port, addr, data_bytes)
            \* called on their own, with the default scope and label
            IF input.op = "read"
            THEN Call("read", CMD_MEM_GET, input.addr, << >>, input.length,
                      "injection", "bm_read_$addr", "region_done")
            ELSE Call("write", CMD_MEM_SET, input.addr,
                      [k \in 1..input.length |-> 0], input.length,
                      "injection", "bm_write_$addr", "region_done")

CallPcs == {"info", "write_test", "read_test", "reset", "write_program",
            "write_pointers", "keyboard", "read_screen", "info2", "poll_read",
            "region"}

\* the body each facade function builds for send_cmd
CallBody(c) ==
    CASE c.kind = "write" -> RegionBody(c.addr, c.addr + Len(c.payload) - 1) \o c.payload
      [] c.kind = "read" -> RegionBody(c.addr, c.addr + c.n - 1)
      [] OTHER -> c.payload

CallPackOk(c) ==
    CASE c.kind = "write" -> PackOk(c.addr, c.addr + Len(c.payload) - 1)
      [] c.kind = "read" -> PackOk(c.addr, c.addr + c.n - 1)
      [] OTHER -> TRUE

\* count = int.from_bytes(pkt[12:14], "little"); return pkt[14:14+count]
ReadResult(pkt) == Slice(pkt, 14, 14 + from_bytes_little(Slice(pkt, 12, 14)))

\* whether the call made at p, answered by the stream r, did what main needs
\* of it: the conditions under which the code after send_cmd does not raise
StepOk(p, r) ==
    LET c == CallAt(p, variant)
        pkt == find_packet(r, c.cmd, 1)
    IN  CASE c.kind \in {"check", "write"} -> pkt # None
          [] c.kind = "raw" -> TRUE
          [] p = "read_test" ->
                pkt # None /\ ReadResult(pkt) # << >> /\ ReadResult(pkt)[1] = TEST_VALUE
          [] p = "read_screen" ->
                pkt # None /\ HasSub(ReadResult(pkt), Pattern(variant))
          [] p \in {"poll_read", "region"} -> pkt # None

\* the step at p has ended
Step(p, ok) == Append(trail, << p, ok >>)

\* variant: a log that keeps only the latest record
LoggedInPlace(scope, label) ==
    IF variant = "test" THEN << << scope, label >> >> ELSE TIMINGS

\* log_timing appends (scope, label, elapsed_ms); only the test script has
\* it.  The elapsed time is printed and never read back, and is left out.
Logged(scope, label) ==
    IF variant = "test" THEN Append(TIMINGS, << scope, label >>) ELSE TIMINGS

\* ------------------------------------------------------------------------
\* The emulator's side
\* ------------------------------------------------------------------------
\* the reply to a command sent under id 1
Ack(cmd) == ResponseFrame([cmd |-> cmd, err |-> 0, rid |-> 1, body |-> << >>])
\* the same with an error code
Nak(cmd) == ResponseFrame([cmd |-> cmd, err |-> 128, rid |-> 1, body |-> << >>])
\* a frame nobody asked for (type 0x62 "stopped"), under an id of its own
Event == ResponseFrame([cmd |-> 98, err |-> 0, rid |-> 2147483647, body |-> << >>])
\* memory-get response: count:u16 then the bytes
Mem(bytes) ==
    ResponseFrame([cmd |-> CMD_MEM_GET, err |-> 0, rid |-> 1,
                   body |-> pack_u16(Len(bytes)) \o bytes])

\* screens the emulated machine may show: the text not (yet) there, with a
\* first row that differs from the last rows; and the text on row 5
BlankScreen == [k \in 1..SCREEN_LEN |-> IF k = 1 THEN 18 ELSE 32]
TextScreen(pat) ==
    [k \in 1..SCREEN_LEN |-> IF k > 200 /\ k <= 200 + Len(pat) THEN pat[k - 200] ELSE 32]

\* the memory-get responses that carry a whole screen
MemBlank == Mem(BlankScreen)
MemHello == Mem(TextScreen(HELLO_SCREEN_CODES))
MemHelloWorld == Mem(TextScreen(HELLO_WORLD_PETSCII))

\* what the emulator may push on the connection of the call at p
Replies(p, v) ==
    CASE p \in {"info", "info2"} -> {Ack(CMD_INFO), Nak(CMD_INFO), Event}
      [] p \in {"write_test", "write_program", "write_pointers"} ->
            {Ack(CMD_MEM_SET), Nak(CMD_MEM_SET), Event}
      [] p = "reset" -> {Ack(CMD_RESET), Event}
      [] p = "keyboard" -> {Ack(CMD_KEYBOARD_FEED), Event}
      [] p = "read_test" ->
            {Mem(<< TEST_VALUE >>), Mem(<< 0 >>), Mem(<< >>), Mem(<< TEST_VALUE, 0 >>),
             CutTail(Mem(<< TEST_VALUE >>), 1), Event}
      [] p = "read_screen" ->
            {IF v = "test" THEN MemHello ELSE MemHelloWorld, MemBlank, Event}
      [] p = "poll_read" -> {MemHello, MemBlank, Mem(<< 18 >>)}
      [] p = "region" -> {Ack(CMD_MEM_SET), Mem(<< 0 >>)}

\* ------------------------------------------------------------------------
\* Rest states: no program running / no scan running
\* ------------------------------------------------------------------------
NoCall == [op |-> "none", cmd |-> 0, n |-> 0, resp |-> << >>,
           outcome |-> "none", ret |-> << >>]
NoCmd == [cmd_id |-> 0, body |-> << >>]
NothingSeen == [reads |-> 0, hit |-> FALSE, late |-> 0]
NoDiag == [msg |-> "none", preview |-> << >>]
NoProcs == [xvfb |-> "none", vice |-> "none", vice2 |-> "none"]

SessionClosed ==
    /\ sess = "idle" /\ cur = NoCmd /\ socks = 0 /\ rxbuf = << >> /\ data = << >>
    /\ sent = << >> /\ emitted = 0 /\ owed = << >> /\ peer_closed = FALSE
    /\ resp = << >>

ProgramFresh ==
    /\ exc = "none" /\ exit_code = -1 /\ stderr = 0 /\ procs = NoProcs
    /\ prg_file = FALSE /\ TIMINGS = << >> /\ clock = 0 /\ found = FALSE
    /\ screen = Unbound /\ seen = NothingSeen /\ diag = NoDiag /\ trail = << >> /\ done = NoCall
    /\ SessionClosed

ProgramOff == variant = "test" /\ pc = "off" /\ ProgramFresh

ScanOff ==
    /\ input = [kind |-> "off"] /\ stream = << >> /\ cmd_id = 0 /\ req_id = NoId
    /\ i = 0 /\ parsed = << >> /\ ret = None /\ scan = "off"

\* ------------------------------------------------------------------------
\* Inputs of the find_packet runs
\* ------------------------------------------------------------------------
CmdSet == {1, 2}
IdSet == {1, 2}
\* a body that itself holds a complete successful frame (command 1, id 1)
EmbeddedBody == ResponseFrame([cmd |-> 1, err |-> 0, rid |-> 1, body |-> << >>])
FrameBodySet == {<< >>, EmbeddedBody}
ErrSet == {0, 128}
FrameSet == [cmd : CmdSet, err : ErrSet, rid : IdSet, body : FrameBodySet]
\* bodies given to the encoder
BodySet == {<< >>, << 7 >>, EmbeddedBody}
\* bytes in front of the first frame: none, a non-marker byte, half a marker
PadSet == {<< >>, << 0 >>, << 2 >>}
\* correlation ids given to the encoder (0x0201 has a marker byte in it)
EncIdSet == {1, 2, 513}

SeqsUpTo(S, n) == UNION {[1..k -> S] : k \in 0..n}

InputStream(in) ==
    IF in.kind = "request" THEN EncodeRequest(in.cmd, in.id, in.body)
    ELSE CutTail(in.pad \o FramesBytes(in.frames), in.cut)

ResponseInputs ==
    [kind : {"responses"}, frames : SeqsUpTo(FrameSet, MaxFrames),
     pad : {<< >>}, cut : 0..MaxCut]
PaddedInputs ==
    [kind : {"padded"}, frames : SeqsUpTo(FrameSet, 1),
     pad : PadSet \ {<< >>}, cut : {0}]
RequestInputs ==
    [kind : {"request"}, cmd : CmdSet, id : EncIdSet, body : BodySet]

\* ------------------------------------------------------------------------
\* find_packet, one loop iteration per step
\* ------------------------------------------------------------------------
ScanInit ==
    /\ input \in ResponseInputs \cup PaddedInputs \cup RequestInputs
    /\ stream = InputStream(input)
    /\ cmd_id \in CmdSet
    /\ req_id \in IdSet \cup {NoId}
    /\ i = 0
    /\ parsed = << >>
    /\ ret = None
    /\ scan = "loop"
    /\ ProgramOff

\* the marker matches and the packet is the one asked for: return pkt
ScanReturn ==
    /\ scan = "loop"
    /\ ScanInRange(stream, i)
    /\ MarkerAt(stream, i)
    /\ PacketMatches(PktAt(stream, i), cmd_id, req_id)
    /\ parsed' = Append(parsed, PktAt(stream, i))
    /\ ret' = PktAt(stream, i)
    /\ scan' = "returned"
    /\ UNCHANGED << input, stream, cmd_id, req_id, i, mainVars, sessVars >>

\* the marker matches, the packet is another one: i += pkt_len
ScanSkipFrame ==
    /\ scan = "loop"
    /\ ScanInRange(stream, i)
    /\ MarkerAt(stream, i)
    /\ ~PacketMatches(PktAt(stream, i), cmd_id, req_id)
    /\ parsed' = Append(parsed, PktAt(stream, i))
    /\ i' = ScanAdvance(stream, i)
    /\ UNCHANGED << input, stream, cmd_id, req_id, ret, scan, mainVars, sessVars >>

\* no marker here: i += 1
ScanSkipByte ==
    /\ scan = "loop"
    /\ ScanInRange(stream, i)
    /\ ~MarkerAt(stream, i)
    /\ i' = ScanAdvance(stream, i)
    /\ UNCHANGED << input, stream, cmd_id, req_id, parsed, ret, scan,
                   mainVars, sessVars >>

\* the loop condition fails: return None
ScanEnd ==
    /\ scan = "loop"
    /\ ~ScanInRange(stream, i)
    /\ ret' = None
    /\ scan' = "returned"
    /\ UNCHANGED << input, stream, cmd_id, req_id, i, parsed, mainVars, sessVars >>

ScanNext == ScanReturn \/ ScanSkipFrame \/ ScanSkipByte \/ ScanEnd

SpecFind == ScanInit /\ [][ScanNext]_vars

\* the runs followed to their end: streams of two successful frames of
\* command 1, whole or cut, padded streams and encoded requests
LiveFrameSet == [cmd : {1}, err : {0}, rid : IdSet, body : FrameBodySet]
LiveInputs ==
    [kind : {"responses"}, frames : [1..2 -> LiveFrameSet], pad : {<< >>},
     cut : 0..MaxCut]
        \cup PaddedInputs \cup RequestInputs

ScanInitLive == ScanInit /\ input \in LiveInputs

\* the loop of find_packet has nothing to wait for: each iteration is taken
SpecFindLive == ScanInitLive /\ [][ScanNext]_vars /\ WF_vars(ScanNext)

\* the iteration-by-iteration scan returns what the function returns
ScanAgrees == scan = "returned" => ret = find_packet(stream, cmd_id, req_id)

\* ------------------------------------------------------------------------
\* Claims about find_packet and the encoder (checked under SpecFind)
\* ------------------------------------------------------------------------
\* the frame f is one the caller asked for
Wanted(f) ==
    /\ f.cmd = cmd_id
    /\ f.err = 0
    /\ (req_id = NoId \/ f.rid = req_id)

\* the bytes of the first wanted frame of fs, None when there is none
FirstWanted(fs) ==
    IF \E k \in 1..Len(fs) : Wanted(fs[k])
    THEN LET k == CHOOSE k \in 1..Len(fs) :
                      Wanted(fs[k]) /\ \A j \in 1..(k - 1) : ~Wanted(fs[j])
         IN  ResponseFrame(fs[k])
    ELSE None

WellFormedRun ==
    scan = "returned" /\ input.kind = "responses" /\ input.cut = 0

\* C1: on a concatenation of well-formed response frames find_packet returns
\* the first frame, in stream order, whose command type is the requested one,
\* whose error code is 0 and whose id is the requested one (any id when none
\* is asked for), and None exactly when the stream holds no such frame;
\* frames in front of it, whatever their bodies, do not hide it.
C1_FirstMatchingFrame == WellFormedRun => ret = FirstWanted(input.frames)

\* C1 witness: the match is the second frame, behind an unwanted frame whose
\* body holds the bytes of a complete wanted frame
C1_Witness ==
    /\ WellFormedRun
    /\ Len(input.frames) = 2
    /\ ~Wanted(input.frames[1])
    /\ input.frames[1].body = EmbeddedBody
    /\ cmd_id = 1 /\ req_id = 1
    /\ Wanted(input.frames[2])
    /\ ret = ResponseFrame(input.frames[2])

\* the last frame of the stream with its tail cut off
TruncatedLast ==
    CutTail(ResponseFrame(input.frames[Len(input.frames)]), input.cut)

TruncatedRun ==
    /\ scan = "returned"
    /\ input.kind = "responses"
    /\ input.cut > 0
    /\ input.frames # << >>
    /\ Len(input.frames[Len(input.frames)].body) > 0

\* C2: a frame at the tail of the buffer whose declared body runs past the
\* bytes available is never what find_packet returns, even when its command
\* type, error code and id are the ones asked for.
C2_TruncatedNeverReturned == TruncatedRun => ret # TruncatedLast

\* the one packet the decoder slices out of an encoded request
Decoded == parsed[1]

RequestRun == scan = "returned" /\ input.kind = "request"

\* C3 as stated: decoding an encoded request yields exactly one frame whose
\* command type, correlation id and body are the encoder's inputs.
C3_RoundTrip ==
    RequestRun =>
        /\ Len(parsed) = 1
        /\ PktCmd(Decoded) = input.cmd
        /\ PktRid(Decoded) = input.id
        /\ PktBody(Decoded) = input.body

\* C3 amended: the request header is 11 bytes, id before command type, while
\* the decoder reads the 12-byte response header, command type before id.
\* An encoded request with an empty body decodes to no frame; with a body it
\* decodes to one packet, the whole message, read as command type = low byte
\* of the id, error code = second byte of the id, id = the id's upper half,
\* the command byte and the first body byte, body = the rest of the body.
C3_RequestDecodesShifted ==
    RequestRun =>
        /\ Len(parsed) <= 1
        /\ (Len(parsed) = 1) <=> (input.body # << >>)
        /\ Len(parsed) = 1 =>
            /\ Decoded = stream
            /\ Len(Decoded) = 11 + Len(input.body)
            /\ PktCmd(Decoded) = input.id % 256
            /\ PktErr(Decoded) = (input.id \div 256) % 256
            /\ PktRid(Decoded) = (input.id \div 65536) + 65536 * input.cmd
                                    + 16777216 * input.body[1]
            /\ PktBody(Decoded) = Tail(input.body)

\* C3 witness: a request with a body went through the decoder
C3_Witness ==
    /\ RequestRun
    /\ input.id = 513 /\ input.body = << 7 >>
    /\ Len(parsed) = 1
    /\ PktCmd(Decoded) = 1 /\ PktErr(Decoded) = 2

\* a frame of the stream that carries an error code
ErrorFrames ==
    {ResponseFrame(input.frames[k]) :
        k \in {j \in 1..Len(input.frames) : input.frames[j].err # 0}}

\* C4: find_packet never returns a packet with a non-zero error code, on any
\* stream, even when its command type and id are the ones asked for; when
\* every frame with that type and id carries an error, it returns None.
C4_ErrorFrameNeverReturned ==
    scan = "returned" =>
        /\ ret # None => PktErr(ret) = 0
        /\ input.kind # "request" => ret \notin ErrorFrames
        /\ (WellFormedRun /\ \A k \in 1..Len(input.frames) : ~Wanted(input.frames[k]))
              => ret = None

\* C4 witness: the only frame with the requested type and id carries an error
C4_Witness ==
    /\ WellFormedRun
    /\ Len(input.frames) = 2
    /\ input.frames[1].cmd = cmd_id /\ input.frames[1].rid = req_id
    /\ input.frames[1].err # 0
    /\ input.frames[2].cmd # cmd_id
    /\ ret = None

\* ------------------------------------------------------------------------
\* The program: main, the facade calls and the session of send_cmd
\* ------------------------------------------------------------------------
Init ==
    /\ variant \in {"scripts", "test"}
    /\ pc = "start"
    /\ ProgramFresh
    /\ ScanOff

\* an exception reaches "except Exception" at the bottom of the script:
\* one line on stderr, sys.exit(1)
Fail(kind) ==
    /\ pc' = "exit1"
    /\ exc' = kind
    /\ stderr' = stderr + 1
    /\ exit_code' = 1

Goto(p) ==
    /\ pc' = p
    /\ UNCHANGED << exc, exit_code, stderr >>

\* variant: a return from send_cmd that leaves the socket open
CloseSessionLeaky ==
    /\ sess' = "idle" /\ cur' = NoCmd /\ socks' = socks /\ rxbuf' = << >>
    /\ data' = << >> /\ sent' = << >> /\ emitted' = 0 /\ peer_closed' = FALSE
    /\ resp' = << >> /\ owed' = << >>

\* the state send_cmd leaves behind, on return and on an exception alike:
\* the with block has closed the socket, the locals are gone
CloseSession ==
    /\ sess' = "idle" /\ cur' = NoCmd /\ socks' = 0 /\ rxbuf' = << >>
    /\ data' = << >> /\ sent' = << >> /\ emitted' = 0 /\ peer_closed' = FALSE
    /\ resp' = << >> /\ owed' = << >>

\* xvfb = subprocess.Popen(XVFB_CMD, ...); log_timing; time.sleep(0.5)
SpawnXvfb ==
    /\ pc = "start"
    /\ \E ok \in BOOLEAN :
        IF ok
        THEN /\ procs' = [procs EXCEPT !.xvfb = "running"]
             /\ TIMINGS' = Logged("injection", "spawn_xvfb")
             /\ Goto("spawn_vice")
        ELSE /\ Fail("OSError")
             /\ UNCHANGED << procs, TIMINGS >>
    /\ done' = NoCall
    /\ UNCHANGED << variant, diag, trail, prg_file, clock, found, screen, seen, scanVars, sessVars >>

\* vice = subprocess.Popen(cmd, ...); log_timing
SpawnVice ==
    /\ pc = "spawn_vice"
    /\ \E ok \in BOOLEAN :
        IF ok
        THEN /\ procs' = [procs EXCEPT !.vice = "running"]
             /\ TIMINGS' = Logged("injection", "spawn_vice")
             /\ Goto("wait_port")
        ELSE /\ Fail("OSError")
             /\ UNCHANGED << procs, TIMINGS >>
    /\ clock' = 0
    /\ done' = NoCall
    /\ UNCHANGED << variant, diag, trail, prg_file, found, screen, seen, scanVars, sessVars >>

WaitPcs == {"wait_port", "wait_port2"}

\* wait_for_port, one loop iteration: the connect succeeds (the socket is
\* closed again at once), is refused, or times out after 0.3 s
WaitPortTry ==
    /\ pc \in WaitPcs
    /\ clock < WAIT_PORT_MS
    /\ \E outcome \in {"connected", "refused", "timeout"} :
        IF outcome = "connected"
        THEN /\ TIMINGS' = Logged(IF pc = "wait_port" THEN "injection" ELSE "autostart",
                                  "wait_port")
             /\ clock' = 0
             /\ Goto(IF pc = "wait_port" THEN "info" ELSE "info2")
        ELSE /\ clock' = clock + WAIT_RETRY_MS
                            + (IF outcome = "timeout" THEN RECV_TIMEOUT_MS ELSE 0)
             /\ UNCHANGED << pc, exc, exit_code, stderr, TIMINGS >>
    /\ done' = NoCall
    /\ UNCHANGED << variant, diag, trail, procs, prg_file, found, screen, seen, scanVars, sessVars >>

\* wait_for_port returned False: raise RuntimeError("Timeout waiting ...")
WaitPortGiveUp ==
    /\ pc \in WaitPcs
    /\ clock >= WAIT_PORT_MS
    /\ Fail("RuntimeError")
    /\ done' = NoCall
    /\ UNCHANGED << variant, diag, trail, procs, prg_file, TIMINGS, clock, found, screen, seen,
                    scanVars, sessVars >>

\* the loops that read the clock: time passes only where it is looked at
Timed == pc = "poll_read"
Later(ms) == IF Timed THEN clock + ms ELSE clock

\* a facade function is entered: it builds the body (struct.pack may raise)
\* and calls send_cmd, which builds the message
CallCmd ==
    /\ pc \in CallPcs
    /\ sess = "idle"
    /\ LET c == CallAt(pc, variant)
       IN  IF CallPackOk(c)
           THEN /\ cur' = [cmd_id |-> c.cmd, body |-> CallBody(c)]
                /\ sess' = "connect"
                /\ done' = NoCall
                /\ seen' = IF pc = "poll_read"
                           THEN [seen EXCEPT !.reads = @ + 1,
                                             !.late = IF seen.hit THEN @ + 1 ELSE @]
                           ELSE seen
                /\ UNCHANGED << pc, exc, exit_code, stderr, trail >>
           ELSE /\ Fail("struct.error")
                /\ done' = [NoCall EXCEPT !.op = pc, !.cmd = c.cmd, !.n = c.n,
                                          !.outcome = "struct.error"]
                /\ trail' = Step(pc, FALSE)
                /\ UNCHANGED << cur, sess, seen >>
    /\ UNCHANGED << variant, diag, procs, prg_file, TIMINGS, clock, found, screen,
                    socks, rxbuf, data, sent, emitted, owed, peer_closed, resp, scanVars >>

\* with socket.create_connection(("127.0.0.1", port), timeout=2) as s
Connect ==
    /\ sess = "connect"
    /\ \E ok \in BOOLEAN :
        IF ok
        THEN /\ socks' = socks + 1
             /\ sess' = "drain"
             /\ UNCHANGED << pc, exc, exit_code, stderr, done, trail, cur, rxbuf, data, sent,
                             emitted, owed, peer_closed, resp >>
        ELSE /\ Fail("ConnectionRefusedError")
             /\ done' = [NoCall EXCEPT !.op = pc, !.cmd = cur.cmd_id,
                                       !.outcome = "ConnectionRefusedError"]
             /\ trail' = Step(pc, FALSE)
             /\ CloseSession
    /\ UNCHANGED << variant, diag, procs, prg_file, TIMINGS, clock, found, screen, seen,
                    scanVars >>

\* a chunk as the emulator's side remembers it
Pushed(c) == [early |-> sent = << >>, bytes |-> c]

\* the emulator pushes a chunk: before it has the request only frames nobody
\* asked for, afterwards any reply
EmuEmit ==
    /\ sess \in {"drain", "send", "collect"}
    /\ ~peer_closed
    /\ emitted < MaxChunks
    /\ \E c \in (IF sent = << >> THEN {Event} ELSE Replies(pc, variant)) :
        /\ rxbuf' = Append(rxbuf, c)
        /\ owed' = Append(owed, Pushed(c))
    /\ emitted' = emitted + 1
    /\ UNCHANGED << mainVars, sess, cur, socks, data, sent, peer_closed, resp,
                    scanVars >>

\* the emulator goes on pushing frames nobody asked for while the client is
\* still draining: one more as soon as the last one has been read.  These
\* are not counted.  The flood is not followed where the model keeps the
\* time, which it would push up without bound.
EmuFlood ==
    /\ sess = "drain"
    /\ ~Timed
    /\ ~peer_closed
    /\ emitted = MaxChunks
    /\ rxbuf = << >>
    /\ rxbuf' = << Event >>
    /\ owed' = Append(owed, Pushed(Event))
    /\ UNCHANGED << mainVars, sess, cur, socks, data, sent, emitted, peer_closed,
                    resp, scanVars >>

\* the emulator closes its end of the connection
EmuClose ==
    /\ sess \in {"drain", "send", "collect"}
    /\ ~peer_closed
    /\ peer_closed' = TRUE
    /\ UNCHANGED << mainVars, sess, cur, socks, rxbuf, data, sent, emitted, owed,
                    resp, scanVars >>

\* recv_all: chunk = sock.recv(4096); data += chunk; time.sleep(0.02).
\* What the drain accumulates is dropped unseen by send_cmd ("_ ="): of it
\* the model keeps the first MaxChunks chunks only.
RecvChunk ==
    /\ sess \in {"drain", "collect"}
    /\ rxbuf # << >>
    /\ data' = IF sess = "drain" /\ Len(data) >= MaxChunks * Len(Event)
               THEN data
               ELSE data \o Head(rxbuf)
    /\ rxbuf' = Tail(rxbuf)
    /\ owed' = IF sess = "drain" THEN Tail(owed) ELSE owed
    /\ clock' = Later(CHUNK_SLEEP_MS)
    /\ UNCHANGED << variant, diag, trail, pc, exc, exit_code, stderr, procs, prg_file, TIMINGS,
                    found, screen, seen, done, sess, cur, socks, sent, emitted,
                    peer_closed, resp, scanVars >>

\* variant: a drain whose bytes stay in front of the reply
LeaveRecvAllKeepsDrained ==
    IF sess = "drain"
    THEN /\ sess' = "send"
         /\ data' = data
         /\ UNCHANGED << socks, rxbuf, resp >>
    ELSE /\ sess' = "returned"
         /\ resp' = data
         /\ data' = << >>
         /\ rxbuf' = << >>
         /\ socks' = socks - 1

\* recv_all's loop is left: in the drain the data is dropped and the request
\* comes next; after the request the data is send_cmd's return value and the
\* with block closes the socket
LeaveRecvAll ==
    IF sess = "drain"
    THEN /\ sess' = "send"
         /\ data' = << >>
         /\ UNCHANGED << socks, rxbuf, resp >>
    ELSE /\ sess' = "returned"
         /\ resp' = data
         /\ data' = << >>
         /\ rxbuf' = << >>
         /\ socks' = socks - 1

\* sock.recv raises socket.timeout after 0.3 s without data: break
RecvTimeout ==
    /\ sess \in {"drain", "collect"}
    /\ rxbuf = << >>
    /\ ~peer_closed
    /\ LeaveRecvAll
    /\ clock' = Later(RECV_TIMEOUT_MS)
    /\ UNCHANGED << variant, diag, trail, pc, exc, exit_code, stderr, procs, prg_file, TIMINGS,
                    found, screen, seen, done, cur, sent, emitted, owed, peer_closed,
                    scanVars >>

\* sock.recv returns b"" (or raises) because the peer is gone: break
RecvEof ==
    /\ sess \in {"drain", "collect"}
    /\ rxbuf = << >>
    /\ peer_closed
    /\ LeaveRecvAll
    /\ UNCHANGED << mainVars, cur, sent, emitted, owed, peer_closed, scanVars >>

\* s.sendall(msg)
Send ==
    /\ sess = "send"
    /\ sent' = Append(sent, EncodeRequest(cur.cmd_id, 1, cur.body))
    /\ sess' = "collect"
    /\ UNCHANGED << mainVars, cur, socks, rxbuf, data, emitted, owed, peer_closed,
                    resp, scanVars >>

\* s.sendall(msg) raises because the peer is gone; the with block closes the
\* socket and the exception leaves send_cmd
SendFails ==
    /\ sess = "send"
    /\ peer_closed
    /\ Fail("BrokenPipeError")
    /\ done' = [NoCall EXCEPT !.op = pc, !.cmd = cur.cmd_id,
                              !.outcome = "BrokenPipeError"]
    /\ trail' = Step(pc, FALSE)
    /\ CloseSession
    /\ UNCHANGED << variant, diag, procs, prg_file, TIMINGS, clock, found, screen, seen,
                    scanVars >>

\* what the facade function that is returning leaves in "done"
Finished(c, outcome, value) ==
    [op |-> pc, cmd |-> c.cmd, n |-> c.n, resp |-> resp, outcome |-> outcome,
     ret |-> value]

\* variant: a checked facade that goes on whatever the stream holds
FinishCheckedLax ==
    /\ pc \in CallPcs
    /\ sess = "returned"
    /\ LET c == CallAt(pc, variant)
       IN  /\ c.kind \in {"check", "write"}
           /\ TIMINGS' = Logged(c.scope, c.label)
           /\ IF resp = << >>
              THEN /\ Fail("RuntimeError")
                   /\ done' = Finished(c, "RuntimeError", << >>)
              ELSE /\ Goto(c.next)
                   /\ done' = Finished(c, "ok", << >>)
    /\ trail' = Step(pc, StepOk(pc, resp))
    /\ CloseSession
    /\ UNCHANGED << variant, diag, procs, prg_file, clock, found, screen, seen, scanVars >>

\* check_vice_info / write_mem after send_cmd: log_timing, then
\* "if not find_packet(resp, cmd, 1): raise RuntimeError"
FinishChecked ==
    /\ pc \in CallPcs
    /\ sess = "returned"
    /\ LET c == CallAt(pc, variant)
       IN  /\ c.kind \in {"check", "write"}
           /\ TIMINGS' = Logged(c.scope, c.label)
           /\ IF find_packet(resp, c.cmd, 1) = None
              THEN /\ Fail("RuntimeError")
                   /\ done' = Finished(c, "RuntimeError", << >>)
              ELSE /\ Goto(c.next)
                   /\ done' = Finished(c, "ok", << >>)
    /\ trail' = Step(pc, StepOk(pc, resp))
    /\ CloseSession
    /\ UNCHANGED << variant, diag, procs, prg_file, clock, found, screen, seen, scanVars >>

\* variant: reset / keyboard feed that insist on a reply frame
FinishUncheckedStrict ==
    /\ pc \in CallPcs
    /\ sess = "returned"
    /\ LET c == CallAt(pc, variant)
       IN  /\ c.kind = "raw"
           /\ TIMINGS' = Logged(c.scope, c.label)
           /\ IF find_packet(resp, c.cmd, 1) = None
              THEN /\ Fail("RuntimeError")
                   /\ done' = Finished(c, "RuntimeError", << >>)
              ELSE /\ Goto(c.next)
                   /\ done' = Finished(c, "ok", << >>)
    /\ trail' = Step(pc, StepOk(pc, resp))
    /\ CloseSession
    /\ UNCHANGED << variant, diag, procs, prg_file, clock, found, screen, seen, scanVars >>

\* run_basic_hello's reset and keyboard feed: "_ = send_cmd(...)", log_timing,
\* time.sleep; the reply is not looked at
FinishUnchecked ==
    /\ pc \in CallPcs
    /\ sess = "returned"
    /\ LET c == CallAt(pc, variant)
       IN  /\ c.kind = "raw"
           /\ TIMINGS' = Logged(c.scope, c.label)
           /\ Goto(c.next)
           /\ done' = Finished(c, "ok", << >>)
    /\ trail' = Step(pc, StepOk(pc, resp))
    /\ CloseSession
    /\ UNCHANGED << variant, diag, procs, prg_file, clock, found, screen, seen, scanVars >>

\* read_mem after send_cmd: the packet found, None when it raises
ReadPkt == find_packet(resp, CMD_MEM_GET, 1)

\* val = read_mem(VICE_PORT, 0x0800, 1)[0]; if val != 0x42: raise
FinishReadTest ==
    /\ pc = "read_test"
    /\ sess = "returned"
    /\ LET c == CallAt(pc, variant)
           pkt == ReadPkt
           value == ReadResult(pkt)
       IN  /\ TIMINGS' = Logged(c.scope, c.label)
           /\ IF pkt = None
              THEN /\ Fail("RuntimeError")
                   /\ done' = Finished(c, "RuntimeError", << >>)
              ELSE /\ done' = Finished(c, "ok", value)
                   /\ IF value = << >>
                      THEN Fail("IndexError")
                      ELSE IF value[1] # TEST_VALUE
                           THEN Fail("RuntimeError")
                           ELSE Goto(c.next)
    /\ trail' = Step(pc, StepOk(pc, resp))
    /\ CloseSession
    /\ UNCHANGED << variant, diag, procs, prg_file, clock, found, screen, seen, scanVars >>

\* variant: a screen check that goes on when the text is not there
FinishReadScreenLenient ==
    /\ pc = "read_screen"
    /\ sess = "returned"
    /\ LET c == CallAt(pc, variant)
           pkt == ReadPkt
           value == ReadResult(pkt)
       IN  /\ TIMINGS' = Logged(c.scope, c.label)
           /\ IF pkt = None
              THEN /\ Fail("RuntimeError")
                   /\ done' = Finished(c, "RuntimeError", << >>)
              ELSE /\ done' = Finished(c, "ok", value)
                   /\ IF HasSub(value, Pattern(variant))
                      THEN Goto(c.next)
                      ELSE Goto(c.next)
           /\ diag' = diag
    /\ trail' = Step(pc, StepOk(pc, resp))
    /\ CloseSession
    /\ UNCHANGED << variant, procs, prg_file, clock, found, screen, seen, scanVars >>

\* run_basic_hello: screen = read_mem(0x0400, 1000); the text must be there
FinishReadScreen ==
    /\ pc = "read_screen"
    /\ sess = "returned"
    /\ LET c == CallAt(pc, variant)
           pkt == ReadPkt
           value == ReadResult(pkt)
       IN  /\ TIMINGS' = Logged(c.scope, c.label)
           /\ IF pkt = None
              THEN /\ Fail("RuntimeError")
                   /\ done' = Finished(c, "RuntimeError", << >>)
              ELSE /\ done' = Finished(c, "ok", value)
                   /\ IF HasSub(value, Pattern(variant))
                      THEN Goto(c.next)
                      ELSE Fail("RuntimeError")
           /\ diag' = IF pkt # None /\ ~HasSub(value, Pattern(variant))
                      THEN Preview("Did not detect", value, PreviewLen(variant))
                      ELSE diag
    /\ trail' = Step(pc, StepOk(pc, resp))
    /\ CloseSession
    /\ UNCHANGED << variant, procs, prg_file, clock, found, screen, seen, scanVars >>

\* vice.terminate(); vice.wait(timeout=2), vice.kill() when that times out
Terminate(ps, p) ==
    {[ps EXCEPT ![p] = how] : how \in {"terminated", "killed"}}

\* main (test): cleanup of the injection instance, then run_autostart_hello
CleanupVice ==
    /\ pc = "cleanup_vice"
    /\ procs' \in Terminate(procs, "vice")
    /\ TIMINGS' = Logged("injection", "cleanup_vice")
    /\ Goto("prepare_prg")
    /\ done' = NoCall
    /\ UNCHANGED << variant, diag, trail, prg_file, clock, found, screen, seen, scanVars, sessVars >>

\* main (scripts): vice.terminate(); xvfb.terminate(); then both waits
CleanupAll ==
    /\ pc = "cleanup_all"
    /\ \E ps \in Terminate(procs, "vice") : procs' \in Terminate(ps, "xvfb")
    /\ pc' = "exit0"
    /\ exit_code' = 0
    /\ done' = NoCall
    /\ UNCHANGED << variant, diag, trail, exc, stderr, prg_file, TIMINGS, clock, found, screen,
                    seen, scanVars, sessVars >>

\* run_autostart_hello: prg_path = write_temp_prg_file(); log_timing
PreparePrg ==
    /\ pc = "prepare_prg"
    /\ \E ok \in BOOLEAN :
        IF ok
        THEN /\ prg_file' = TRUE
             /\ TIMINGS' = Logged("autostart", "prepare_prg")
             /\ Goto("spawn_vice2")
        ELSE /\ Fail("OSError")
             /\ UNCHANGED << prg_file, TIMINGS >>
    /\ done' = NoCall
    /\ UNCHANGED << variant, diag, trail, procs, clock, found, screen, seen, scanVars, sessVars >>

\* proc = subprocess.Popen(cmd + ["-autostart", prg_path]); log_timing
SpawnVice2 ==
    /\ pc = "spawn_vice2"
    /\ \E ok \in BOOLEAN :
        IF ok
        THEN /\ procs' = [procs EXCEPT !.vice2 = "running"]
             /\ TIMINGS' = Logged("autostart", "spawn_vice")
             /\ Goto("wait_port2")
        ELSE /\ Fail("OSError")
             /\ UNCHANGED << procs, TIMINGS >>
    /\ clock' = 0
    /\ done' = NoCall
    /\ UNCHANGED << variant, diag, trail, prg_file, found, screen, seen, scanVars, sessVars >>

\* t_wait = now_ns(); found = False; start_ms = ms_since(t_wait)
PollInit ==
    /\ pc = "poll_init"
    /\ found' = FALSE
    /\ clock' = 0
    /\ Goto("poll_test")
    /\ done' = NoCall
    /\ UNCHANGED << variant, diag, trail, procs, prg_file, TIMINGS, screen, seen, scanVars, sessVars >>

\* time passes before the clock is read at the loop test: the process is not
\* scheduled for a while
Stall ==
    /\ pc = "poll_test"
    /\ clock < timeout_ms
    /\ clock' = clock + timeout_ms
    /\ done' = NoCall
    /\ UNCHANGED << variant, diag, trail, pc, exc, exit_code, stderr, procs, prg_file, TIMINGS,
                    found, screen, seen, scanVars, sessVars >>

\* while ms_since(t_wait) - start_ms < timeout_ms
PollTest ==
    /\ pc = "poll_test"
    /\ clock < timeout_ms => seen.reads < MaxPolls
    /\ Goto(IF clock < timeout_ms THEN "poll_read" ELSE "poll_end")
    /\ done' = NoCall
    /\ UNCHANGED << variant, diag, trail, procs, prg_file, TIMINGS, clock, found, screen, seen,
                    scanVars, sessVars >>

\* variant: a loop body that does not break on a hit
FinishPollReadNoBreak ==
    /\ pc = "poll_read"
    /\ sess = "returned"
    /\ LET c == CallAt(pc, variant)
           pkt == ReadPkt
           value == ReadResult(pkt)
       IN  /\ TIMINGS' = Logged(c.scope, c.label)
           /\ IF pkt = None
              THEN /\ Fail("RuntimeError")
                   /\ done' = Finished(c, "RuntimeError", << >>)
                   /\ UNCHANGED << screen, found, seen, clock >>
              ELSE /\ done' = Finished(c, "ok", value)
                   /\ screen' = value
                   /\ seen' = [seen EXCEPT !.hit = @ \/ HasSub(value, HELLO_SCREEN_CODES)]
                   /\ IF HasSub(value, HELLO_SCREEN_CODES)
                      THEN /\ found' = TRUE
                           /\ Goto("poll_test")
                           /\ UNCHANGED clock
                      ELSE /\ clock' = clock + POLL_SLEEP_MS
                           /\ Goto("poll_test")
                           /\ UNCHANGED found
    /\ trail' = Step(pc, StepOk(pc, resp))
    /\ CloseSession
    /\ UNCHANGED << variant, diag, procs, prg_file, scanVars >>

\* the loop body: screen = read_mem(...); idx = screen.find(...);
\* found = True and break when idx != -1, else time.sleep(0.05)
FinishPollRead ==
    /\ pc = "poll_read"
    /\ sess = "returned"
    /\ LET c == CallAt(pc, variant)
           pkt == ReadPkt
           value == ReadResult(pkt)
       IN  /\ TIMINGS' = Logged(c.scope, c.label)
           /\ IF pkt = None
              THEN /\ Fail("RuntimeError")
                   /\ done' = Finished(c, "RuntimeError", << >>)
                   /\ UNCHANGED << screen, found, seen, clock >>
              ELSE /\ done' = Finished(c, "ok", value)
                   /\ screen' = value
                   /\ seen' = [seen EXCEPT !.hit = @ \/ HasSub(value, HELLO_SCREEN_CODES)]
                   /\ IF HasSub(value, HELLO_SCREEN_CODES)
                      THEN /\ found' = TRUE
                           /\ Goto("poll_end")
                           /\ UNCHANGED clock
                      ELSE /\ clock' = clock + POLL_SLEEP_MS
                           /\ Goto("poll_test")
                           /\ UNCHANGED found
    /\ trail' = Step(pc, StepOk(pc, resp))
    /\ CloseSession
    /\ UNCHANGED << variant, diag, procs, prg_file, scanVars >>

\* variant: a failure message that shows the end of the screen
PollEndShowsTail ==
    /\ pc = "poll_end"
    /\ clock' = 0
    /\ TIMINGS' = Logged("autostart", "wait_hello")
    /\ IF found
       THEN Goto("cleanup_vice2") /\ UNCHANGED diag
       ELSE IF screen = Unbound
            THEN Fail("UnboundLocalError") /\ UNCHANGED diag
            ELSE /\ Fail("RuntimeError")
                 /\ diag' = [msg |-> "[autostart] Did not detect",
                             preview |-> LastN(screen, 80)]
    /\ trail' = Step("poll", seen.hit)
    /\ done' = NoCall
    /\ UNCHANGED << variant, procs, prg_file, found, screen, seen, scanVars, sessVars >>

\* after the loop: log_timing; "if not found: preview = ... screen[:80];
\* raise RuntimeError(... + preview)"; reading screen raises
\* UnboundLocalError when the loop body never ran
PollEnd ==
    /\ pc = "poll_end"
    /\ clock' = 0
    /\ TIMINGS' = Logged("autostart", "wait_hello")
    /\ IF found
       THEN Goto("cleanup_vice2") /\ UNCHANGED diag
       ELSE IF screen = Unbound
            THEN Fail("UnboundLocalError") /\ UNCHANGED diag
            ELSE /\ Fail("RuntimeError")
                 /\ diag' = Preview("[autostart] Did not detect", screen, 80)
    /\ trail' = Step("poll", seen.hit)
    /\ done' = NoCall
    /\ UNCHANGED << variant, procs, prg_file, found, screen, seen, scanVars, sessVars >>

\* proc.terminate(); wait or kill; log_timing; os.remove(prg_path)
CleanupVice2 ==
    /\ pc = "cleanup_vice2"
    /\ procs' \in Terminate(procs, "vice2")
    /\ TIMINGS' = Logged("autostart", "cleanup_vice")
    /\ prg_file' = FALSE
    /\ Goto("cleanup_xvfb")
    /\ done' = NoCall
    /\ UNCHANGED << variant, diag, trail, clock, found, screen, seen, scanVars, sessVars >>

\* xvfb.terminate(); wait or kill; log_timing; the summary; exit status 0
CleanupXvfb ==
    /\ pc = "cleanup_xvfb"
    /\ procs' \in Terminate(procs, "xvfb")
    /\ TIMINGS' = Logged("autostart", "cleanup_xvfb")
    /\ pc' = "exit0"
    /\ exit_code' = 0
    /\ done' = NoCall
    /\ UNCHANGED << variant, diag, trail, exc, stderr, prg_file, clock, found, screen, seen, scanVars, sessVars >>

Next ==
    \/ SpawnXvfb \/ SpawnVice \/ WaitPortTry \/ WaitPortGiveUp
    \/ CallCmd \/ Connect \/ EmuEmit \/ EmuFlood \/ EmuClose \/ RecvChunk \/ RecvTimeout
    \/ RecvEof \/ Send \/ SendFails
    \/ FinishChecked \/ FinishUnchecked \/ FinishReadTest \/ FinishReadScreen
    \/ CleanupVice \/ CleanupAll \/ PreparePrg \/ SpawnVice2
    \/ PollInit \/ Stall \/ PollTest \/ FinishPollRead \/ PollEnd
    \/ CleanupVice2 \/ CleanupXvfb

Spec == Init /\ [][Next]_vars

\* the steps that are the program's own: it is never held up for good, while
\* the emulator and the scheduler owe it nothing
ProgramNext ==
    \/ SpawnXvfb \/ SpawnVice \/ WaitPortTry \/ WaitPortGiveUp
    \/ CallCmd \/ Connect \/ RecvChunk \/ RecvTimeout \/ RecvEof \/ Send \/ SendFails
    \/ FinishChecked \/ FinishUnchecked \/ FinishReadTest \/ FinishReadScreen
    \/ CleanupVice \/ CleanupAll \/ PreparePrg \/ SpawnVice2
    \/ PollInit \/ PollTest \/ FinishPollRead \/ PollEnd
    \/ CleanupVice2 \/ CleanupXvfb

SpecLive == Spec /\ WF_vars(ProgramNext)

\* ------------------------------------------------------------------------
\* read_mem and write_mem called on their own, for a region of any address
\* and length
\* ------------------------------------------------------------------------
AddrSet == {0, 1, 255, 256, 65535, 65536}
LenSet == {0, 1, 2}
RegionInputs == [kind : {"region"}, op : {"read", "write"}, addr : AddrSet,
                 length : LenSet]

RegionInit ==
    /\ input \in RegionInputs
    /\ stream = << >> /\ cmd_id = 0 /\ req_id = NoId
    /\ i = 0 /\ parsed = << >> /\ ret = None /\ scan = "off"
    /\ variant = "test"
    /\ pc = "region"
    /\ ProgramFresh

\* read_mem after send_cmd, for the caller that takes what it returns:
\* log_timing; raise when no packet is found; return pkt[14:14+count]
FinishRead ==
    /\ pc = "region"
    /\ sess = "returned"
    /\ LET c == CallAt(pc, variant)
           pkt == ReadPkt
       IN  /\ c.kind = "read"
           /\ TIMINGS' = Logged(c.scope, c.label)
           /\ IF pkt = None
              THEN /\ Fail("RuntimeError")
                   /\ done' = Finished(c, "RuntimeError", << >>)
              ELSE /\ Goto(c.next)
                   /\ done' = Finished(c, "ok", ReadResult(pkt))
    /\ trail' = Step(pc, StepOk(pc, resp))
    /\ CloseSession
    /\ UNCHANGED << variant, diag, procs, prg_file, clock, found, screen, seen,
                    scanVars >>

RegionNext ==
    \/ CallCmd \/ Connect \/ EmuEmit \/ EmuFlood \/ EmuClose \/ RecvChunk
    \/ RecvTimeout \/ RecvEof \/ Send \/ SendFails \/ FinishChecked \/ FinishRead

SpecRegion == RegionInit /\ [][RegionNext]_vars

\* ------------------------------------------------------------------------
\* Claims about the facade calls, the session and main (checked under Spec)
\* ------------------------------------------------------------------------
ReadPcs == {"read_test", "read_screen", "poll_read"}
CheckedPcs == {"info", "info2", "write_test", "write_program", "write_pointers"}
UncheckedPcs == {"reset", "keyboard"}
ExitPcs == {"exit0", "exit1"}

\* C5: a memory read of N bytes that returns, returns exactly N bytes; a
\* reply whose count field does not agree with N or with the bytes present
\* makes it fail instead of returning another length.
C5_ReadReturnsExactlyN ==
    (done.op \in ReadPcs /\ done.outcome = "ok") => Len(done.ret) = done.n

\* the response type main expects for the call made at p
ExpectedType(p) ==
    CASE p \in {"info", "info2"} -> 133
      [] p \in {"write_test", "write_program", "write_pointers"} -> 2
      [] p = "reset" -> 204
      [] p = "keyboard" -> 114
      [] p \in ReadPcs -> 1

\* the collected stream of the call that has just finished holds no frame
\* of the expected type with id 1 and error code 0
NoReply == find_packet(done.resp, ExpectedType(done.op), 1) = None

C7_CheckedSucceedIffReply ==
    (done.op \in CheckedPcs /\ done.outcome \in {"ok", "RuntimeError"}) =>
        /\ (done.outcome = "ok") <=> ~NoReply
        /\ done.outcome = "ok" => (exc = "none" /\ pc \notin ExitPcs)
        /\ done.outcome = "RuntimeError" => (exc = "RuntimeError" /\ pc = "exit1")

\* C7 witness: a write whose only reply carries an error code has failed
C7_Witness ==
    /\ done.op = "write_test"
    /\ done.resp = Nak(CMD_MEM_SET)
    /\ done.outcome = "RuntimeError"
    /\ pc = "exit1"

\* C8: the socket send_cmd opens is closed on every way out of it: none is
\* open outside the drain/send/collect steps, in particular after a failed
\* send and when the program has ended; at most one is open at a time and a
\* connection carries exactly one request.
C8_SessionAlwaysClosed ==
    /\ socks \in {0, 1}
    /\ (socks = 1) <=> (sess \in {"drain", "send", "collect"})
    /\ pc \in ExitPcs => (socks = 0 /\ sess = "idle")
    /\ Len(sent) <= 1
    /\ sess \in {"drain", "send"} => sent = << >>
    /\ sess = "collect" => sent = << EncodeRequest(cur.cmd_id, 1, cur.body) >>

\* C8 witness: sendall raised on an open connection and the program ended
C8_Witness ==
    /\ pc = "exit1"
    /\ exc = "BrokenPipeError"
    /\ done.outcome = "BrokenPipeError"
    /\ socks = 0

\* C9: whenever the program has ended, every process it spawned has been
\* asked to terminate (and killed if it did not go in time) and the
\* temporary program file is gone.
C9_CleanupOnEveryExit ==
    pc \in ExitPcs =>
        /\ \A p \in DOMAIN procs : procs[p] # "running"
        /\ ~prg_file

\* the poll loop has been left: normally, or by an exception in its read
PollStopped == pc = "poll_end" \/ (pc = "exit1" /\ done.op = "poll_read")

\* C10 as stated: the poll loop stops only because the predicate succeeded
\* or the deadline has elapsed.
C10_PollStopsOnSuccessOrDeadline == PollStopped => (found \/ clock >= timeout_ms)

\* C10 amended: the poll loop reads the screen and tests it, sleeping the
\* interval between attempts, until the text is found, the deadline has
\* elapsed at the loop test, or a read raises (no matching frame, or the
\* session fails), which ends the loop and the program; found is set exactly
\* when some observation held the text, and no read is issued after that.
C10_PollStopsOnSuccessDeadlineOrError ==
    /\ PollStopped =>
          \/ found
          \/ clock >= timeout_ms
          \/ /\ pc = "exit1"
             /\ done.outcome \in {"RuntimeError", "ConnectionRefusedError",
                                  "BrokenPipeError"}
             /\ exc = done.outcome
    /\ pc \in {"poll_test", "poll_read", "poll_end"} => (found <=> seen.hit)
    /\ found => pc # "poll_test"
    /\ seen.late = 0
    /\ pc = "poll_test" => clock >= seen.reads * POLL_SLEEP_MS

\* C10 witness: the second read, after one sleep, found the text
C10_Witness ==
    /\ pc = "poll_end"
    /\ found
    /\ seen.reads = 2
    /\ clock < timeout_ms
    /\ HasSub(screen, HELLO_SCREEN_CODES)

\* ------------------------------------------------------------------------
\* Claims about the failure report of the autostart poll
\* ------------------------------------------------------------------------
\* the poll has ended with its "Did not detect" failure
PollReported == pc = "exit1" /\ diag.msg = "[autostart] Did not detect"

\* C11 as stated: a poll that reaches its deadline without a hit fails with
\* the verification error whose payload is the last 80 bytes of the most
\* recent observation.
C11_ReportCarriesLast80 ==
    PollReported =>
          /\ exc = "RuntimeError"
          /\ diag.preview = LastN(screen, 80)

\* C11 amended: a poll that ends without a hit after at least one observation
\* fails with RuntimeError whose payload is the first 80 bytes of the most
\* recent observation, all of it when it is shorter; no observation held the
\* text.  A poll that ends without any observation fails with
\* UnboundLocalError and carries no payload.
C11_ReportCarriesFirst80 ==
    /\ PollReported =>
          /\ exc = "RuntimeError"
          /\ ~found /\ ~seen.hit
          /\ seen.reads >= 1
          /\ screen # Unbound
          /\ diag.preview = Slice(screen, 0, 80)
          /\ Len(diag.preview) = Min(80, Len(screen))
          /\ ~HasSub(screen, HELLO_SCREEN_CODES)
    /\ (pc = "exit1" /\ TIMINGS # << >>
          /\ TIMINGS[Len(TIMINGS)] = << "autostart", "wait_hello" >>) =>
          \/ PollReported
          \/ exc = "UnboundLocalError" /\ screen = Unbound /\ diag = NoDiag

\* C11 witness: the deadline passed after two reads of a screen without the
\* text, whose first row differs from its last rows
C11_Witness ==
    /\ PollReported
    /\ seen.reads = 2
    /\ screen = BlankScreen
    /\ Len(diag.preview) = 80
    /\ diag.preview[1] = 18
    /\ diag.preview # LastN(screen, 80)

\* ------------------------------------------------------------------------
\* Claims about the program as a whole
\* ------------------------------------------------------------------------
\* the commands main issues up to the end of run_basic_hello, in order
BasicSteps ==
    << "info", "write_test", "read_test", "reset", "write_program",
       "write_pointers", "keyboard", "read_screen" >>

\* the steps of a complete run: the basic ones and, in the test script, the
\* autostart handshake, at least one poll read and the poll's verdict
FullRun(t) ==
    /\ Len(t) >= Len(BasicSteps)
    /\ \A k \in 1..Len(BasicSteps) : t[k][1] = BasicSteps[k]
    /\ IF variant = "scripts"
       THEN Len(t) = Len(BasicSteps)
       ELSE /\ Len(t) >= Len(BasicSteps) + 3
            /\ t[Len(BasicSteps) + 1][1] = "info2"
            /\ \A k \in (Len(BasicSteps) + 2)..(Len(t) - 1) : t[k][1] = "poll_read"
            /\ t[Len(t)][1] = "poll"

ResponsesFor(fs, id) ==
    {k \in 1..Len(fs) : fs[k].cmd = cmd_id /\ fs[k].err = 0 /\ fs[k].rid = id}

\* the one response of the stream for id
TheResponseFor(id) ==
    ResponseFrame(input.frames[CHOOSE k \in ResponsesFor(input.frames, id) : TRUE])

Reverse(fs) == [k \in 1..Len(fs) |-> fs[Len(fs) + 1 - k]]

\* the stream holds exactly one successful response for each of the two ids
PairRun ==
    /\ WellFormedRun
    /\ \A id \in IdSet : Cardinality(ResponsesFor(input.frames, id)) = 1

\* C13: when the stream holds one successful response of the requested type
\* for each of two different ids, find_packet returns for each id the frame
\* with that id, and returns the same frames when the frames of the stream
\* come in the opposite order.
C13_MatchingIndependentOfOrder ==
    PairRun =>
        /\ \A id \in IdSet :
              /\ find_packet(stream, cmd_id, id) = TheResponseFor(id)
              /\ find_packet(FramesBytes(Reverse(input.frames)), cmd_id, id)
                    = TheResponseFor(id)
        /\ TheResponseFor(1) # TheResponseFor(2)
        /\ req_id # NoId => ret = TheResponseFor(req_id)

\* C13 witness: the frame asked for is the second one, behind a successful
\* response of the same type for the other id
C13_Witness ==
    /\ PairRun
    /\ Len(input.frames) = 2
    /\ req_id = 2
    /\ input.frames[1].rid = 1 /\ input.frames[1].body = EmbeddedBody
    /\ input.frames[2].rid = 2
    /\ ret = ResponseFrame(input.frames[2])

\* ------------------------------------------------------------------------
\* Claims about the timing log (checked under Spec)
\* ------------------------------------------------------------------------
\* this step ends an invocation of a facade operation
CallEnds == trail' # trail /\ pc \in CallPcs

\* the record that invocation is to leave
CallRecord == << CallAt(pc, variant).scope, CallAt(pc, variant).label >>

\* the log only grows, by at most one record a step
AppendOnly ==
    /\ Len(TIMINGS') \in {Len(TIMINGS), Len(TIMINGS) + 1}
    /\ SubSeq(TIMINGS', 1, Len(TIMINGS)) = TIMINGS

\* C14 as stated: in the test script every invocation of a facade operation
\* appends exactly one record with the caller's scope and label; the log is
\* append-only.
C14_EveryCallLogsOnce ==
    [][/\ AppendOnly
       /\ (CallEnds /\ variant = "test") => TIMINGS' = Append(TIMINGS, CallRecord)
       /\ (sess \notin {"idle", "returned"}) => TIMINGS' = TIMINGS]_vars

\* C14 amended: in the test script an invocation of a facade operation
\* appends exactly one record with the caller's scope and label when its
\* session completes (send_cmd returns), before the reply is looked at and
\* so also when the operation then fails; an invocation that fails while
\* packing the body, connecting or sending appends none.  The log is
\* append-only and ordered by invocation; nothing is appended while a session
\* is under way.  The other script keeps no log.
C14_CompletedCallLogsOnce ==
    [][/\ AppendOnly
       /\ (CallEnds /\ variant = "test" /\ sess = "returned") =>
              TIMINGS' = Append(TIMINGS, CallRecord)
       /\ (CallEnds /\ sess # "returned") => TIMINGS' = TIMINGS
       /\ (sess \notin {"idle", "returned"} \/ pc \in ExitPcs) => TIMINGS' = TIMINGS
       /\ variant = "scripts" => TIMINGS' = << >>]_vars

\* C14 witness: a write that failed for lack of a reply has left its record
\* as the fifth of the log
C14_Witness ==
    /\ variant = "test"
    /\ done.op = "write_test" /\ done.outcome = "RuntimeError"
    /\ Len(TIMINGS) = 5
    /\ TIMINGS[4] = << "injection", "bm_info" >>
    /\ TIMINGS[5] = << "injection", "bm_write_$0800" >>

\* ------------------------------------------------------------------------
\* Claims about the scan of find_packet (checked under SpecFindLive)
\* ------------------------------------------------------------------------
\* an iteration that goes round the loop again
ScanGoesOn == scan = "loop" /\ scan' = "loop" /\ i' # i

\* the declared body length at offset i
DeclaredBodyLen == from_bytes_little(Slice(stream, i + 2, i + 6))

\* the bytes the iteration at offset i indexes one by one: the two marker
\* bytes of the stream, and bytes 6 and 7 of the packet when it is tested
IndexedInside ==
    /\ i >= 0
    /\ i + 2 <= Len(stream)
    /\ MarkerAt(stream, i) => Len(PktAt(stream, i)) >= 8

\* C15: the scan of find_packet ends on every buffer; an iteration that does
\* not return advances by 12 + the declared body length where the start
\* marker matches and by one byte elsewhere, so the offset strictly
\* increases; only bytes inside the buffer are indexed; the buffer is not
\* changed and the result is the packet at the offset or None.
C15_ScanTerminates ==
    /\ [][ScanGoesOn =>
             /\ i' > i
             /\ MarkerAt(stream, i) => i' = i + 12 + DeclaredBodyLen
             /\ ~MarkerAt(stream, i) => i' = i + 1]_vars
    /\ [][scan = "loop" => (i' >= i /\ stream' = stream)]_vars
    /\ []((scan = "loop" /\ ScanInRange(stream, i)) => IndexedInside)
    /\ [](scan = "returned" => (ret = None \/ ret = PktAt(stream, i)))
    /\ <>(scan = "returned")

\* C15 witness: the scan went over a frame with a body in one step, then
\* over the bytes of a cut-off tail, and ended without a match
C15_Witness ==
    /\ scan = "returned"
    /\ ret = None
    /\ input.kind = "responses"
    /\ Len(input.frames) = 2
    /\ input.frames[1].body = EmbeddedBody
    /\ input.cut = 1
    /\ Len(parsed) = 2
    /\ i > Len(stream)

\* ------------------------------------------------------------------------
\* Claims about the session of send_cmd (checked under Spec)
\* ------------------------------------------------------------------------
\* the steps of a session in the order send_cmd takes them; from connect and
\* from send an exception leads straight out
SessionOrder ==
    { << "idle", "connect" >>, << "connect", "drain" >>, << "drain", "send" >>,
      << "send", "collect" >>, << "collect", "returned" >>, << "returned", "idle" >>,
      << "connect", "idle" >>, << "send", "idle" >> }

\* the bytes of the chunks the drain has not read, in arrival order
OwedBytes == Concat([k \in 1..Len(owed) |-> owed[k].bytes])

\* C16 as stated: the steps of a session come in the order connect, drain,
\* send, collect; the stream returned is the concatenation of the chunks read
\* after the request was written; and no bytes the emulator emitted before
\* the request was sent are in it.
C16_NoEarlyBytesReturned ==
    /\ [][sess' # sess => << sess, sess' >> \in SessionOrder]_vars
    /\ [](sess = "returned" =>
            /\ resp = OwedBytes
            /\ \A k \in 1..Len(owed) : ~owed[k].early)

\* C16 amended: the steps of a session come in the order connect, drain,
\* send, collect; what the drain reads is dropped and never part of the
\* stream returned; the stream returned is the concatenation, in arrival
\* order, of the chunks read after the request was written and before the
\* first read that timed out or met the closed peer, and these are all the
\* chunks the drain did not read: replies, and also bytes the emulator
\* emitted before the request was sent when they arrive after the drain's
\* last read.
C16_ReturnsAllUndrainedChunks ==
    /\ [][sess' # sess => << sess, sess' >> \in SessionOrder]_vars
    /\ [][(sess = "drain" /\ sess' = "send") => (data' = << >> /\ rxbuf = << >>)]_vars
    /\ [][(sess = "collect" /\ sess' = "returned") => (resp' = data /\ rxbuf = << >>)]_vars
    /\ [](sess \in {"connect", "drain", "send"} => sent = << >>)
    /\ [](sess = "send" => \A k \in 1..Len(owed) : owed[k].early)
    /\ [](sess = "collect" => data \o Concat(rxbuf) = OwedBytes)
    /\ [](sess = "returned" => resp = OwedBytes)

\* C16 witness: one event frame was drained, a second one, pushed before the
\* request went out, came back as the stream of the command
C16_Witness ==
    /\ sess = "returned"
    /\ emitted = 2
    /\ Len(owed) = 1
    /\ owed[1].early
    /\ resp = Event

\* C17: on every session that was opened the drain finishes and the request
\* is then sent (or the send fails), however much the emulator pushes; the
\* collection after the send finishes as well, so that every command sooner
\* or later returns a stream or fails.
C17_DrainAndCollectionFinish ==
    /\ (sess = "drain") ~> (sess \in {"collect", "idle"})
    /\ (sess = "collect") ~> (sess = "returned")
    /\ (sess = "connect") ~> (sess = "returned" \/ exc # "none")

\* ------------------------------------------------------------------------
\* Claims about the poll loop and the region descriptor
\* ------------------------------------------------------------------------
\* C18: the poll loop has read the screen at least once before it can report
\* that the text was not found: whenever the loop is left without a hit an
\* observation exists, and the report is never built from a screen that was
\* never read, also when the deadline has passed at the first loop test.
C18_ObservationBeforeReport ==
    /\ (pc = "poll_end" /\ ~found) => (seen.reads >= 1 /\ screen # Unbound)
    /\ exc # "UnboundLocalError"

\* the region asked for lies in the 64K address space and is not empty
ValidRegion ==
    /\ input.addr \in 0..65535
    /\ input.length >= 1
    /\ input.addr + input.length - 1 <= 65535

\* both addresses of the descriptor fit 16 bits
Representable ==
    /\ input.addr \in 0..65535
    /\ input.addr + input.length - 1 \in 0..65535

\* the fields of the descriptor at the head of the body being sent
DescStart == from_bytes_little(Slice(cur.body, 1, 3))
DescEnd == from_bytes_little(Slice(cur.body, 3, 5))

\* the descriptor is the 8 bytes flag 0, start, end, memspace 0, bank 0, and
\* a write's payload follows it
DescriptorRight ==
    /\ Len(cur.body) = 8 + (IF input.op = "write" THEN input.length ELSE 0)
    /\ cur.body[1] = 0
    /\ DescStart = input.addr
    /\ DescEnd = input.addr + input.length - 1
    /\ Slice(cur.body, 5, 8) = << 0, 0, 0 >>
    /\ sent # << >> =>
          sent[1] = << 2, 2 >> \o pack_u32(Len(cur.body)) \o pack_u32(1)
                       \o << cur.cmd_id >> \o cur.body

\* no session was opened for the call and it has failed, or is yet to be made
NothingOpened ==
    /\ sess = "idle" /\ socks = 0 /\ sent = << >> /\ emitted = 0
    /\ pc \in {"region", "exit1"}
    /\ pc = "exit1" => exc = "struct.error"

\* C19 as stated: for a region inside the address space the descriptor
\* carries the start address and start + length - 1; for every other input
\* the call fails while the body is built, no connection is opened and
\* nothing is sent.
C19_OtherRegionsFail ==
    /\ (ValidRegion /\ sess # "idle") => DescriptorRight
    /\ ~ValidRegion => NothingOpened

\* C19 amended: the call fails while the body is built, with no connection
\* opened and nothing sent, exactly when the start address or start +
\* length - 1 lies outside 0..65535: a start above 0xFFFF, a region running
\* past 0xFFFF, or length 0 at address 0.  In every other case, an empty
\* region at an address from 1 on included, the descriptor carries start and
\* start + length - 1 as 16-bit little-endian values (for an empty region
\* the end is one below the start) and the command is sent.
C19_DescriptorOrPackFailure ==
    /\ (Representable /\ sess # "idle") => DescriptorRight
    /\ Representable => exc # "struct.error"
    /\ ~Representable => NothingOpened
    /\ ValidRegion => Representable

\* C19 witness: a read of length 0 at address 1 has gone out with end
\* address 0
C19_Witness ==
    /\ input.op = "read" /\ input.addr = 1 /\ input.length = 0
    /\ sess = "collect"
    /\ sent # << >>
    /\ DescStart = 1 /\ DescEnd = 0

====
